---- MODULE Spec2Model ----
(***************************************************************************)
(* DP Multi-Timing Bandwidth Checker (src/src/MyApp.tsx).                  *)
(*                                                                         *)
(* Numbers are exact: the source computes in IEEE doubles, the model in    *)
(* integers with a fixed unit per field:                                   *)
(*   h, v, porches, sync widths, totals : pixels / lines                   *)
(*   hz                                 : Hz                               *)
(*   pixel clock                        : Hz, as the pair mhz*10^6 + hz    *)
(*   peakBw, peakBwDsc                  : 10^-4 Gbps (the 4 decimals of    *)
(*                                        toFixed(4))                      *)
(*   rate                               : 10^-2 Gbps                       *)
(*   bpp                                : half bits (factor 1.5 -> 3/2)    *)
(*   dscRatio                           : tenths (3 -> 30, 2.4 -> 24)      *)
(* calculateCvtTiming is modelled with margins, interlaced and             *)
(* videoOptimized at their defaults (false): no call site passes them.     *)
(***************************************************************************)
EXTENDS Integers, Sequences, FiniteSets, TLC

----------------------------------------------------------------------------
(* JavaScript values *)

Undefined == [t |-> "undefined"]
Null      == [t |-> "null"]
NaN       == [t |-> "NaN"]
Num(n)    == [t |-> "number", n |-> n]
\* a string that is not a decimal numeral ("" included)
Str(s)    == [t |-> "string", s |-> s]
\* the decimal numeral of n, in the unit of the field that holds it
Numeral(n) == [t |-> "string", dec |-> n]
Bool(b)   == [t |-> "boolean", b |-> b]
Obj(f)    == [t |-> "object", f |-> f]
Arr(a)    == [t |-> "array", a |-> a]
\* a pixel clock of mhz*10^6 + hz Hz
Clock(mhz, hz) == [t |-> "number", mhz |-> mhz, hz |-> hz]

IsNumeral(x) == x.t = "string" /\ "dec" \in DOMAIN x

\* Number(x)
JsNumber(x) ==
  CASE x.t = "number"    -> x
    [] x.t = "null"      -> Num(0)
    [] x.t = "boolean"   -> Num(IF x.b THEN 1 ELSE 0)
    [] x.t = "string"    -> IF IsNumeral(x) THEN Num(x.dec)
                            ELSE IF x.s = "" THEN Num(0) ELSE NaN
    [] OTHER             -> NaN

\* Number.isFinite(x)
IsFinite(x) == x.t = "number"

\* x > 0, for a number in either representation
IsPositive(x) ==
  /\ x.t = "number"
  /\ IF "n" \in DOMAIN x THEN x.n > 0 ELSE x.mhz > 0 \/ (x.mhz = 0 /\ x.hz > 0)

\* x is zero (a number in either representation)
IsZero(x) ==
  /\ x.t = "number"
  /\ IF "n" \in DOMAIN x THEN x.n = 0 ELSE x.mhz = 0 /\ x.hz = 0

\* the truthiness of x: what `x || d`, `x && y`, `if (x)` and Boolean(x) test
Truthy(x) ==
  CASE x.t = "number"    -> ~IsZero(x)
    [] x.t = "string"    -> IsNumeral(x) \/ x.s # ""
    [] x.t = "boolean"   -> x.b
    [] x.t \in {"object", "array"} -> TRUE
    [] OTHER             -> FALSE

\* x ?? d
Nullish(x) == x.t \in {"undefined", "null"}
Coalesce(x, d) == IF Nullish(x) THEN d ELSE x

\* x || d
OrElse(x, d) == IF Truthy(x) THEN x ELSE d

\* String(x), for the values a payload can hold
JsString(x) ==
  CASE x.t = "string"    -> x
    [] x.t = "number"    -> Numeral(x.n)
    [] x.t = "boolean"   -> Str(IF x.b THEN "true" ELSE "false")
    [] x.t = "null"      -> Str("null")
    [] x.t = "undefined" -> Str("undefined")
    [] OTHER             -> Str("[object Object]")

\* o.k for an object o; a primitive has no such property
Prop(o, k) == IF o.t = "object" /\ k \in DOMAIN o.f THEN o.f[k] ELSE Undefined

\* reading a property of undefined or null throws a TypeError
PropThrows(o) == Nullish(o)

----------------------------------------------------------------------------
(* Exact arithmetic on products too wide for one machine integer *)

\* <<q, r>> with a * b = q * c + r and 0 <= r < c, for a, b >= 0 and
\* 0 < c < 7 * 10^8; no intermediate value exceeds 3 * c
RECURSIVE MulDivModLt(_, _, _)
MulDivModLt(a, b, c) ==
  IF a = 0 THEN <<0, 0>>
  ELSE LET half == MulDivModLt(a \div 2, b, c)
           rest == 2 * half[2] + (IF a % 2 = 1 THEN b ELSE 0)
       IN  <<2 * half[1] + (rest \div c), rest % c>>

MulDivMod(a, b, c) ==
  LET low == MulDivModLt(a, b % c, c)
  IN  <<a * (b \div c) + low[1], low[2]>>

\* floor(a * b / c)
MulDiv(a, b, c) == MulDivMod(a, b, c)[1]

----------------------------------------------------------------------------
(* Tables and constants *)

\* DP_PRESETS: rate in 10^-2 Gbps
DP_PRESETS == <<
  [id |-> "custom",        rate |-> 810,  coding |-> "8b10b",    lanes |-> 4],
  [id |-> "dp20_uhbr20",   rate |-> 2000, coding |-> "128b132b", lanes |-> 4],
  [id |-> "dp20_uhbr13_5", rate |-> 1350, coding |-> "128b132b", lanes |-> 4],
  [id |-> "dp20_uhbr10",   rate |-> 1000, coding |-> "128b132b", lanes |-> 4],
  [id |-> "dp13_hbr3",     rate |-> 810,  coding |-> "8b10b",    lanes |-> 4],
  [id |-> "dp12_hbr2",     rate |-> 540,  coding |-> "8b10b",    lanes |-> 4],
  [id |-> "dp12_hbr",      rate |-> 270,  coding |-> "8b10b",    lanes |-> 4],
  [id |-> "dp11_rbr",      rate |-> 162,  coding |-> "8b10b",    lanes |-> 4] >>

\* PREDEFINED_MODES, indexed from 0 as in the source
PREDEFINED_MODES == <<
  [h |-> 1920, v |-> 1080, hz |-> 60],
  [h |-> 1920, v |-> 1080, hz |-> 144],
  [h |-> 2560, v |-> 1440, hz |-> 60],
  [h |-> 2560, v |-> 1440, hz |-> 144],
  [h |-> 3440, v |-> 1440, hz |-> 144],
  [h |-> 3840, v |-> 2160, hz |-> 60],
  [h |-> 3840, v |-> 2160, hz |-> 120],
  [h |-> 3840, v |-> 2160, hz |-> 144],
  [h |-> 3840, v |-> 2160, hz |-> 240],
  [h |-> 5120, v |-> 1440, hz |-> 120] >>

ModeIndices == 0 .. Len(PREDEFINED_MODES) - 1
ModeAt(i) == PREDEFINED_MODES[i + 1]

\* COLOR_FORMATS: twice the factor (1.5 -> 3)
COLOR_FORMATS == [rgb |-> 6, yuv444 |-> 6, yuv422 |-> 4, yuv420 |-> 3]
ColorFormatIds == DOMAIN COLOR_FORMATS

DEFAULT_BPC == 8
DEFAULT_COLOR_FORMAT == "rgb"
LANE_OPTIONS == <<1, 2, 4>>
BpcOptions == {5, 6, 8, 10, 12, 16}
DscRatioOptions == {30, 24}
CvtKinds == {"manual", "cvt", "cvt_rb", "cvt_rb2"}
CvtProfiles == CvtKinds \ {"manual"}

CVT_CELL_GRAN == 8
\* 0.08, in hundredths
CVT_HSYNC_PERCENT == 8
CVT_MIN_V_PORCH == 3
CVT_MIN_VSYNC_BP == 550
CVT_MIN_V_BPORCH == 6
CVT_C_PRIME == 30
CVT_M_PRIME == 300

----------------------------------------------------------------------------
(* TimingGenerator: calculateCvtTiming *)

\* variant: a horizontal blanking of 100 pixels for cvt_rb
clockParamsNarrow(reducedBlanking) ==
  CASE reducedBlanking = "cvt" ->
         [clockStepInv |-> 4, rbHBlank |-> 160, rbHSync |-> 32,
          rbMinVBlank |-> 460, rbVFrontPorch |-> 3]
    [] reducedBlanking = "cvt_rb" ->
         [clockStepInv |-> 4, rbHBlank |-> 100, rbHSync |-> 32,
          rbMinVBlank |-> 460, rbVFrontPorch |-> 3]
    [] OTHER ->
         [clockStepInv |-> 1000, rbHBlank |-> 80, rbHSync |-> 32,
          rbMinVBlank |-> 460, rbVFrontPorch |-> 1]

\* variant: the parameters of cvt_rb and cvt_rb2 exchanged
clockParamsExchanged(reducedBlanking) ==
  CASE reducedBlanking = "cvt" ->
         [clockStepInv |-> 4, rbHBlank |-> 160, rbHSync |-> 32,
          rbMinVBlank |-> 460, rbVFrontPorch |-> 3]
    [] reducedBlanking = "cvt_rb" ->
         [clockStepInv |-> 1000, rbHBlank |-> 80, rbHSync |-> 32,
          rbMinVBlank |-> 460, rbVFrontPorch |-> 1]
    [] OTHER ->
         [clockStepInv |-> 4, rbHBlank |-> 160, rbHSync |-> 32,
          rbMinVBlank |-> 460, rbVFrontPorch |-> 3]

\* clockStepInv steps make 1 MHz
clockParams(reducedBlanking) ==
  CASE reducedBlanking = "cvt" ->
         [clockStepInv |-> 4, rbHBlank |-> 160, rbHSync |-> 32,
          rbMinVBlank |-> 460, rbVFrontPorch |-> 3]
    [] reducedBlanking = "cvt_rb" ->
         [clockStepInv |-> 4, rbHBlank |-> 160, rbHSync |-> 32,
          rbMinVBlank |-> 460, rbVFrontPorch |-> 3]
    [] OTHER ->
         [clockStepInv |-> 1000, rbHBlank |-> 80, rbHSync |-> 32,
          rbMinVBlank |-> 460, rbVFrontPorch |-> 1]

aspectCandidates == <<
  [name |-> "4:3",   num |-> 4,  den |-> 3],
  [name |-> "16:9",  num |-> 16, den |-> 9],
  [name |-> "16:10", num |-> 16, den |-> 10],
  [name |-> "5:4",   num |-> 5,  den |-> 4],
  [name |-> "15:9",  num |-> 15, den |-> 9],
  [name |-> "43:18", num |-> 43, den |-> 18],
  [name |-> "64:27", num |-> 64, den |-> 27],
  [name |-> "12:5",  num |-> 12, den |-> 5] >>

\* cellGran * Math.round(verPixels * ratio / cellGran) === hPixelsRounded
aspectMatches(c, verPixels, hPixelsRounded) ==
  CVT_CELL_GRAN * ((2 * verPixels * c.num + CVT_CELL_GRAN * c.den)
                     \div (2 * CVT_CELL_GRAN * c.den)) = hPixelsRounded

\* variant: the last matching candidate wins
aspectRatioLast(verPixels, hPixelsRounded) ==
  LET hits == {i \in 1 .. Len(aspectCandidates) :
                 aspectMatches(aspectCandidates[i], verPixels, hPixelsRounded)}
  IN  IF hits = {} THEN "Unknown"
      ELSE aspectCandidates[CHOOSE i \in hits : \A j \in hits : i >= j].name

\* aspectCandidates.find(...)?.[0] ?? "Unknown": the first match wins
aspectRatio(verPixels, hPixelsRounded) ==
  LET hits == {i \in 1 .. Len(aspectCandidates) :
                 aspectMatches(aspectCandidates[i], verPixels, hPixelsRounded)}
  IN  IF hits = {} THEN "Unknown"
      ELSE aspectCandidates[CHOOSE i \in hits : \A j \in hits : i <= j].name

vSyncRounded(reducedBlanking, aspect) ==
  IF reducedBlanking = "cvt_rb2" THEN 8
  ELSE IF aspect = "4:3" THEN 4
  ELSE IF aspect = "16:9" THEN 5
  ELSE IF aspect = "16:10" THEN 6
  ELSE IF aspect = "5:4" THEN 7
  ELSE IF aspect = "15:9" THEN 7
  ELSE 10

\* variant: one step more, the next multiple of the clock step
ClockOfStepsAbove(k, clockStepInv) ==
  Clock((k + 1) \div clockStepInv,
        ((k + 1) % clockStepInv) * (1000000 \div clockStepInv))

\* a clock of k steps, clockStepInv steps to the MHz
ClockOfSteps(k, clockStepInv) ==
  Clock(k \div clockStepInv, (k % clockStepInv) * (1000000 \div clockStepInv))

\* the branch reducedBlanking === "cvt".  With N = 10^6 - 550*F and
\* M = F*(vLines + 3), hPeriodEst = N / M microseconds.
cvtStandard(hActive, vActive, refreshHz, vSync, cp) ==
  LET totalActivePixels == (hActive \div CVT_CELL_GRAN) * CVT_CELL_GRAN
      N == 1000000 - CVT_MIN_VSYNC_BP * refreshHz
      M == refreshHz * (vActive + CVT_MIN_V_PORCH)
      est == ((CVT_MIN_VSYNC_BP * M) \div N) + 1
      vSyncBackPorch == IF est < vSync + CVT_MIN_V_BPORCH
                        THEN vSync + CVT_MIN_V_BPORCH ELSE est
      minDutyCycle == 20
      \* idealDutyCycle = C' - M' * hPeriodEst / 1000 = (300*M - 3*N) / (10*M)
      belowMin == (CVT_M_PRIME \div 100) * N
                    > 10 * (CVT_C_PRIME - minDutyCycle) * M
      hBlank ==
        IF belowMin
        THEN (((totalActivePixels * minDutyCycle) \div (100 - minDutyCycle))
                \div (2 * CVT_CELL_GRAN)) * (2 * CVT_CELL_GRAN)
        ELSE (MulDiv(totalActivePixels,
                     10 * CVT_C_PRIME * M - (CVT_M_PRIME \div 100) * N,
                     (1000 - 10 * CVT_C_PRIME) * M + (CVT_M_PRIME \div 100) * N)
                \div (2 * CVT_CELL_GRAN)) * (2 * CVT_CELL_GRAN)
      totalPixels == totalActivePixels + hBlank
      hSync == ((CVT_HSYNC_PERCENT * totalPixels) \div (100 * CVT_CELL_GRAN))
                 * CVT_CELL_GRAN
      hBackPorch == hBlank \div 2
  IN  [pixelClockMHz |-> ClockOfSteps(MulDiv(cp.clockStepInv * totalPixels, M, N),
                                      cp.clockStepInv),
       hTotal |-> totalPixels,
       vTotal |-> vActive + vSyncBackPorch + CVT_MIN_V_PORCH,
       hBlank |-> hBlank,
       vBlank |-> vSyncBackPorch + CVT_MIN_V_PORCH,
       hFront |-> hBlank - hSync - hBackPorch,
       hSync  |-> hSync,
       hBack  |-> hBackPorch,
       vFront |-> CVT_MIN_V_PORCH,
       vSync  |-> vSync,
       vBack  |-> vSyncBackPorch - vSync]

\* the else branch (reduced blanking).  With N = 10^6 - rbMinVBlank*F and
\* M = F*vLines, hPeriodEst = N / M microseconds.
cvtReduced(hActive, vActive, refreshHz, reducedBlanking, vSync, cp) ==
  LET totalActivePixels == (hActive \div CVT_CELL_GRAN) * CVT_CELL_GRAN
      N == 1000000 - cp.rbMinVBlank * refreshHz
      M == refreshHz * vActive
      vbiLines == ((cp.rbMinVBlank * M) \div N) + 1
      rbMinVbi == cp.rbVFrontPorch + vSync + CVT_MIN_V_BPORCH
      activeVbiLines == IF vbiLines < rbMinVbi THEN rbMinVbi ELSE vbiLines
      totalVLines == activeVbiLines + vActive
      totalPixels == totalActivePixels + cp.rbHBlank
      clockSteps == MulDiv(totalVLines * totalPixels,
                      refreshHz * cp.clockStepInv, 1000000)
      isRb2 == reducedBlanking = "cvt_rb2"
      vFrontPorch == IF isRb2 THEN activeVbiLines - vSync - 6 ELSE 3
      vBackPorch  == IF isRb2 THEN 6 ELSE activeVbiLines - vFrontPorch - vSync
      hBackPorch  == IF isRb2 THEN 40 ELSE 80
  IN  [pixelClockMHz |-> ClockOfSteps(clockSteps, cp.clockStepInv),
       hTotal |-> totalPixels,
       vTotal |-> totalVLines,
       hBlank |-> cp.rbHBlank,
       vBlank |-> activeVbiLines,
       hFront |-> cp.rbHBlank - cp.rbHSync - hBackPorch,
       hSync  |-> cp.rbHSync,
       hBack  |-> hBackPorch,
       vFront |-> vFrontPorch,
       vSync  |-> vSync,
       vBack  |-> vBackPorch]

calculateCvtTiming(hActive, vActive, refreshHz, reducedBlanking) ==
  LET cp == clockParams(reducedBlanking)
      hPixelsRounded == (hActive \div CVT_CELL_GRAN) * CVT_CELL_GRAN
      vSync == vSyncRounded(reducedBlanking, aspectRatio(vActive, hPixelsRounded))
  IN  IF reducedBlanking = "cvt"
      THEN cvtStandard(hActive, vActive, refreshHz, vSync, cp)
      ELSE cvtReduced(hActive, vActive, refreshHz, reducedBlanking, vSync, cp)

----------------------------------------------------------------------------
(* BandwidthModel and LinkCapacityModel *)

\* (hTotal * vTotal * hz) / 1e6 MHz
pixelClockMHzFromTotals(h, v, hz, hFront, hSync, hBack, vFront, vSync, vBack) ==
  LET hTotal == h + hFront + hSync + hBack
      vTotal == v + vFront + vSync + vBack
      qr == MulDivMod(hTotal * vTotal, hz, 1000000)
  IN  Clock(qr[1], qr[2])

\* (clockMHz * 1e6 * bpp) / 1e9 Gbps, as the fraction
\* (hi*10^6 + lo) * 10 / den10 half bits per second; bpp2 is twice the bpp
streamGbpsFromClock(clockMHz, bpp2) ==
  LET lo == clockMHz.hz * bpp2
  IN  [hi |-> clockMHz.mhz * bpp2 + (lo \div 1000000), lo |-> lo % 1000000,
       den10 |-> 10]

\* peak / ratio, the ratio in tenths
DivideByRatio(peak, ratio10) == [peak EXCEPT !.den10 = ratio10]

\* x.toFixed(4): the numeral of x rounded to 10^-4 Gbps, halves upward
toFixed4(x) ==
  LET D == x.den10 * 20000
      qr == MulDivMod(x.hi, 1000000, D)
  IN  Numeral(qr[1] + ((qr[2] + x.lo + (D \div 2)) \div D))

\* coding efficiency as a fraction: 0.8 = 4/5, 128/132 = 32/33
codingEfficiency(coding) ==
  IF coding = "8b10b" THEN [num |-> 4, den |-> 5] ELSE [num |-> 32, den |-> 33]

----------------------------------------------------------------------------
(* Bounds of the model *)

\* handler invocations in one behaviour
MaxSteps == 3
\* the last millisecond Date.now() reaches
MaxNow == 1

\* the inputs the model offers to the handlers
ModeChoices   == {0, 4, 8}
PresetChoices == {"dp20_uhbr20", "dp11_rbr"}
RateInputs    == {0, 540}
CodingInputs  == {"8b10b", "128b132b"}
ActiveInputs  == {0, 320}
LinesInputs   == {240}
RefreshInputs == {60}
PorchInputs   == {0}
BpcChoices    == {5, 10}
FormatChoices == {"yuv420"}
\* a peak rate exactly at, and one step above, the default payload capacity
PeakInputs    == {Str(""), Numeral(259200), Numeral(259201)}

----------------------------------------------------------------------------
(* State *)

VARIABLES
  timings,        \* useState<TimingRow[]>
  presetId,       \* useState<string>
  lanes,          \* useState<number>
  rate,           \* useState<number>, 10^-2 Gbps
  coding,         \* useState<Coding>
  effectPending,  \* the [presetId] effect is scheduled and has not run
  now,            \* the last value Date.now() returned
  file,           \* the last exported dp_multi_timing_config.json
  last,           \* the last handler that ran, its input and whether it failed
  steps,          \* handler invocations so far
  call,           \* a pure function under test and its arguments
  ret             \* its result

vars == <<timings, presetId, lanes, rate, coding, effectPending, now, file,
          last, steps, call, ret>>
appVars == <<timings, presetId, lanes, rate, coding, effectPending, now, file,
             last, steps>>

NoFile == [valid |-> FALSE, none |-> TRUE]
NoCall == [fn |-> "none"]
NoRet  == [of |-> "none"]

Op(op, i, arg, failed) == [op |-> op, i |-> i, arg |-> arg, failed |-> failed]

----------------------------------------------------------------------------
(* Timing rows *)

DEFAULT_PRESET_TIMING == calculateCvtTiming(3840, 2160, 144, "cvt_rb2")

\* `${Date.now()}_${i}`
TimeId(ms, i) == [t |-> "string", s |-> "${Date.now()}_${i}", ms |-> ms, i |-> i]
\* `Timing ${i+1}`
TimingLabel(i) == [t |-> "string", s |-> "Timing ${i+1}", k |-> i + 1]

defaultCalc == [
  calcOpen |-> Bool(FALSE),
  modeIndex |-> Num(0),
  cvtKind |-> Str("cvt_rb2"),
  h |-> Num(3840),
  v |-> Num(2160),
  hz |-> Num(144),
  hFront |-> Num(DEFAULT_PRESET_TIMING.hFront),
  hSync |-> Num(DEFAULT_PRESET_TIMING.hSync),
  hBack |-> Num(DEFAULT_PRESET_TIMING.hBack),
  vFront |-> Num(DEFAULT_PRESET_TIMING.vFront),
  vSync |-> Num(DEFAULT_PRESET_TIMING.vSync),
  vBack |-> Num(DEFAULT_PRESET_TIMING.vBack),
  bpc |-> Num(DEFAULT_BPC),
  colorFormat |-> Str(DEFAULT_COLOR_FORMAT),
  bpp |-> Num(DEFAULT_BPC * COLOR_FORMATS[DEFAULT_COLOR_FORMAT]),
  dscRatio |-> Num(30),
  pixelClock |-> DEFAULT_PRESET_TIMING.pixelClockMHz ]

emptyTiming(ms, i) ==
  [id |-> TimeId(ms, i), label |-> TimingLabel(i), peakBw |-> Str(""),
   peakBwDsc |-> Str(""), useDsc |-> Bool(TRUE)] @@ defaultCalc

\* a profile as calculateCvtTiming's switch and comparisons read it
KindName(kind) ==
  IF kind.t = "string" /\ ~IsNumeral(kind) THEN kind.s ELSE "other"

\* COLOR_FORMATS[colorFormat] ?? COLOR_FORMATS[DEFAULT_COLOR_FORMAT], twice the factor
formatFactor(colorFormat) ==
  IF colorFormat.t = "string" /\ ~IsNumeral(colorFormat)
     /\ colorFormat.s \in ColorFormatIds
  THEN COLOR_FORMATS[colorFormat.s] ELSE COLOR_FORMATS[DEFAULT_COLOR_FORMAT]

\* Number(x) || d
NumberOr(x, d) == OrElse(JsNumber(x), Num(d))

\* t.dscRatio && t.dscRatio > 0 ? t.dscRatio : 3
effectiveRatio(dscRatio) ==
  IF Truthy(dscRatio) /\ IsPositive(JsNumber(dscRatio)) THEN dscRatio ELSE Num(30)

\* const updateTiming = (id, patch) => setTimings(ts => ts.map(...))
updateTiming(ts, id, patch) ==
  [k \in DOMAIN ts |-> IF ts[k].id = id THEN patch @@ ts[k] ELSE ts[k]]

\* ts.filter(t => t.id !== id)
removeTiming(ts, id) ==
  LET keep(t) == t.id # id IN SelectSeq(ts, keep)

\* the fields both onChooseMode and computeAndFill write, from the active
\* resolution they settled on
filledFields(t, h, v, hz, manualPorch) ==
  LET kind == OrElse(t.cvtKind, Str("cvt_rb2"))
      bpc == NumberOr(t.bpc, DEFAULT_BPC)
      colorFormat == OrElse(t.colorFormat, Str(DEFAULT_COLOR_FORMAT))
      ratio == effectiveRatio(t.dscRatio)
      manual == kind = Str("manual")
      result == calculateCvtTiming(h, v, hz, KindName(kind))
      hFront == IF manual THEN manualPorch.hFront ELSE result.hFront
      hSync  == IF manual THEN manualPorch.hSync  ELSE result.hSync
      hBack  == IF manual THEN manualPorch.hBack  ELSE result.hBack
      vFront == IF manual THEN manualPorch.vFront ELSE result.vFront
      vSync  == IF manual THEN manualPorch.vSync  ELSE result.vSync
      vBack  == IF manual THEN manualPorch.vBack  ELSE result.vBack
      pixelClock ==
        IF manual
        THEN pixelClockMHzFromTotals(h, v, hz, hFront, hSync, hBack,
                                     vFront, vSync, vBack)
        ELSE result.pixelClockMHz
      bpp == bpc.n * formatFactor(colorFormat)
      peak == streamGbpsFromClock(pixelClock, bpp)
      peakDsc == DivideByRatio(peak, JsNumber(ratio).n)
  IN  [h |-> Num(h), v |-> Num(v), hz |-> Num(hz),
       hFront |-> Num(hFront), hSync |-> Num(hSync), hBack |-> Num(hBack),
       vFront |-> Num(vFront), vSync |-> Num(vSync), vBack |-> Num(vBack),
       bpc |-> bpc, colorFormat |-> colorFormat, bpp |-> Num(bpp),
       dscRatio |-> ratio, pixelClock |-> pixelClock,
       peakBw |-> toFixed4(peak), peakBwDsc |-> toFixed4(peakDsc)]

\* PREDEFINED_MODES[modeIdx] is undefined and reading m.h throws
onChooseModeThrows(modeIdx) == modeIdx.n \notin ModeIndices

\* the patch onChooseMode(t, modeIdx) passes to updateTiming
onChooseModePatch(t, modeIdx) ==
  LET m == ModeAt(modeIdx.n)
      porch == [hFront |-> Coalesce(t.hFront, Num(8)).n,
                hSync  |-> Coalesce(t.hSync, Num(32)).n,
                hBack  |-> Coalesce(t.hBack, Num(120)).n,
                vFront |-> Coalesce(t.vFront, Num(3)).n,
                vSync  |-> Coalesce(t.vSync, Num(6)).n,
                vBack  |-> Coalesce(t.vBack, Num(9)).n]
  IN  [modeIndex |-> modeIdx] @@ filledFields(t, m.h, m.v, m.hz, porch)

\* the row computeAndFill(id) maps a row with that id to
computeAndFillRow(t) ==
  LET porch == [hFront |-> NumberOr(t.hFront, 8).n,
                hSync  |-> NumberOr(t.hSync, 32).n,
                hBack  |-> NumberOr(t.hBack, 120).n,
                vFront |-> NumberOr(t.vFront, 3).n,
                vSync  |-> NumberOr(t.vSync, 6).n,
                vBack  |-> NumberOr(t.vBack, 9).n]
  IN  filledFields(t, NumberOr(t.h, 1920).n, NumberOr(t.v, 1080).n,
                   NumberOr(t.hz, 60).n, porch) @@ t

----------------------------------------------------------------------------
(* AggregationEngine: the derived values of one render *)

payloadCapacityGbps(r, l, c) ==
  LET eff == codingEfficiency(c)
  IN  [num |-> r * l * eff.num, den |-> eff.den]

\* timings.map(t => ({...t, peak: Number(t.peakBw)||0, peakDsc: ...}))
parsed(ts) ==
  [k \in DOMAIN ts |->
     [peak |-> NumberOr(ts[k].peakBw, 0), peakDsc |-> NumberOr(ts[k].peakBwDsc, 0)]
       @@ ts[k]]

RECURSIVE reduceSelected(_, _)
\* parsed.reduce((s, t) => s + (t.useDsc ? t.peakDsc : t.peak), 0), 10^-4 Gbps
reduceSelected(ps, k) ==
  IF k = 0 THEN 0
  ELSE reduceSelected(ps, k - 1)
         + (IF Truthy(ps[k].useDsc) THEN ps[k].peakDsc.n ELSE ps[k].peak.n)

totalGbps(ts) == reduceSelected(parsed(ts), Len(ts))

\* variant: a margin of exactly 10 percent is still low
utilColorInclusive(fitting, marginPct) ==
  IF ~fitting THEN "bg-red-500"
  ELSE IF marginPct.num <= 10 * marginPct.den THEN "bg-amber-400"
  ELSE "bg-emerald-500"

\* utilColor(fits, marginPct), marginPct a fraction num/den with den > 0
utilColor(fitting, marginPct) ==
  IF ~fitting THEN "bg-red-500"
  ELSE IF marginPct.num < 10 * marginPct.den THEN "bg-amber-400"
  ELSE "bg-emerald-500"

\* variant: a total equal to the capacity does not fit
fitsWithinBelow(total, cap) ==
  total * cap.den - 100 * cap.num < cap.den \div 100000

\* totalGbps <= payloadCapacityGbps + 1e-9.  The capacity is
\* cap.num / cap.den * 10^-2 Gbps and the total a multiple of 10^-4 Gbps:
\* total <= 100 * cap.num / cap.den + 10^-5, all of it times cap.den
fitsWithin(total, cap) ==
  total * cap.den - 100 * cap.num <= cap.den \div 100000

fits == fitsWithin(totalGbps(timings), payloadCapacityGbps(rate, lanes, coding))

\* payloadCapacityGbps > 0 ? (margin / payloadCapacityGbps) * 100 : 0
marginPctOf(total, cap) ==
  IF cap.num > 0 THEN [num |-> 100 * cap.num - total * cap.den, den |-> cap.num]
  ELSE [num |-> 0, den |-> 1]

marginPct == marginPctOf(totalGbps(timings), payloadCapacityGbps(rate, lanes, coding))

barColor == utilColor(fits, marginPct)

----------------------------------------------------------------------------
(* Export and import *)

\* JSON.stringify drops the properties whose value is undefined
Defined(row) == [k \in {f \in DOMAIN row : row[f] # Undefined} |-> row[k]]

exportData ==
  Obj([timings |-> Arr([k \in DOMAIN timings |-> Obj(Defined(parsed(timings)[k]))]),
       transport |-> Obj([rate |-> Num(rate), lanes |-> Num(lanes),
                          coding |-> Str(coding),
                          eff |-> [t |-> "number", frac |-> codingEfficiency(coding)]]),
       presetId |-> Str(presetId)])

JsonText(j) == [valid |-> TRUE, json |-> j]
InvalidText == [valid |-> FALSE, none |-> FALSE]

\* JSON.parse or the property reads of onImport throw: the catch block alerts
onImportThrows(text) ==
  \/ ~text.valid
  \/ PropThrows(text.json)
  \/ LET ts == Prop(text.json, "timings")
     IN  ts.t = "array" /\ \E k \in DOMAIN ts.a : PropThrows(ts.a[k])

\* one element of j.timings.map((t, i) => ...), i counted from 0
restoredRow(t, i, ms) ==
  LET importedFormat ==
        IF Prop(t, "colorFormat").t = "string" /\ ~IsNumeral(Prop(t, "colorFormat"))
           /\ Prop(t, "colorFormat").s \in ColorFormatIds
        THEN Prop(t, "colorFormat") ELSE Str(DEFAULT_COLOR_FORMAT)
      rawBpc == JsNumber(Prop(t, "bpc"))
      bpc == IF IsFinite(rawBpc) /\ IsPositive(rawBpc) THEN rawBpc ELSE Num(DEFAULT_BPC)
      rawBpp == JsNumber(Prop(t, "bpp"))
      bpp == IF IsFinite(rawBpp) /\ IsPositive(rawBpp) THEN rawBpp
             ELSE Num(bpc.n * formatFactor(importedFormat))
      h == JsNumber(Prop(t, "h"))
      v == JsNumber(Prop(t, "v"))
      hz == JsNumber(Prop(t, "hz"))
      hFront == JsNumber(Prop(t, "hFront"))
      hSync == JsNumber(Prop(t, "hSync"))
      hBack == JsNumber(Prop(t, "hBack"))
      vFront == JsNumber(Prop(t, "vFront"))
      vSync == JsNumber(Prop(t, "vSync"))
      vBack == JsNumber(Prop(t, "vBack"))
      hasTotals == \A x \in {h, v, hz, hFront, hSync, hBack, vFront, vSync, vBack} :
                     IsFinite(x)
      rawPixelClock == JsNumber(Prop(t, "pixelClock"))
      computedPixelClock ==
        IF hasTotals
        THEN pixelClockMHzFromTotals(h.n, v.n, hz.n, hFront.n, hSync.n, hBack.n,
                                     vFront.n, vSync.n, vBack.n)
        ELSE Undefined
      finiteOr(x) == IF IsFinite(x) THEN x ELSE Undefined
  IN  [id |-> OrElse(Prop(t, "id"), TimeId(ms, i)),
       label |-> JsString(Coalesce(Prop(t, "label"), TimingLabel(i))),
       peakBw |-> JsString(Coalesce(Prop(t, "peakBw"), Str(""))),
       peakBwDsc |-> JsString(Coalesce(Prop(t, "peakBwDsc"), Str(""))),
       useDsc |-> Bool(Truthy(Prop(t, "useDsc"))),
       calcOpen |-> Bool(Truthy(Prop(t, "calcOpen"))),
       modeIndex |-> IF Prop(t, "modeIndex").t = "number" THEN Prop(t, "modeIndex")
                     ELSE Num(0),
       cvtKind |-> OrElse(Prop(t, "cvtKind"), Str("cvt_rb2")),
       h |-> finiteOr(h), v |-> finiteOr(v), hz |-> finiteOr(hz),
       hFront |-> finiteOr(hFront), hSync |-> finiteOr(hSync),
       hBack |-> finiteOr(hBack), vFront |-> finiteOr(vFront),
       vSync |-> finiteOr(vSync), vBack |-> finiteOr(vBack),
       bpp |-> bpp, bpc |-> bpc, colorFormat |-> importedFormat,
       dscRatio |-> Prop(t, "dscRatio"),
       pixelClock |-> IF IsFinite(rawPixelClock) /\ IsPositive(rawPixelClock)
                      THEN rawPixelClock ELSE computedPixelClock]

\* j.timings.map(...).slice(0, 4), then restored.length ? restored : [emptyTiming(0)]
restoredTimings(a, ms) ==
  LET restored == [k \in 1 .. (IF Len(a) < 4 THEN Len(a) ELSE 4) |->
                     restoredRow(a[k], k - 1, ms)]
  IN  IF Len(restored) # 0 THEN restored ELSE <<emptyTiming(ms, 0)>>

\* the import reads Date.now(): for a row without an id, or for emptyTiming(0)
importReadsClock(text) ==
  /\ ~onImportThrows(text)
  /\ LET ts == Prop(text.json, "timings")
     IN  /\ ts.t = "array"
         /\ \/ Len(ts.a) = 0
            \/ \E k \in DOMAIN ts.a : ~Truthy(Prop(ts.a[k], "id"))

\* variant: any number of lanes in the file is taken as it is
laneOptionAsRead(importedLanes) ==
  IF IsFinite(importedLanes) THEN importedLanes.n ELSE LANE_OPTIONS[Len(LANE_OPTIONS)]

\* LANE_OPTIONS.includes(importedLanes) ? importedLanes : LANE_OPTIONS[LANE_OPTIONS.length-1]
laneOption(importedLanes) ==
  IF IsFinite(importedLanes) /\ \E k \in DOMAIN LANE_OPTIONS : LANE_OPTIONS[k] = importedLanes.n
  THEN importedLanes.n ELSE LANE_OPTIONS[Len(LANE_OPTIONS)]

\* j.transport.coding === "8b10b" ? "8b10b" : "128b/132b"
importedCoding(c) == IF c = Str("8b10b") THEN "8b10b" ELSE "128b/132b"

\* DP_PRESETS.find(p => p.id === presetId) || DP_PRESETS[0]
presetOf(pid) ==
  LET hits == {k \in DOMAIN DP_PRESETS : DP_PRESETS[k].id = pid}
  IN  IF hits = {} THEN DP_PRESETS[1]
      ELSE DP_PRESETS[CHOOSE k \in hits : \A m \in hits : k <= m]

----------------------------------------------------------------------------
(* The files the model offers to Import JSON *)

\* a complete manual entry: 1920x1080 @ 60 with 2200 x 1125 totals
EntryCea == Obj([
  id |-> Str("a"), label |-> Str("cea"), peakBw |-> Numeral(35640),
  peakBwDsc |-> Numeral(11880), useDsc |-> Bool(FALSE), calcOpen |-> Bool(TRUE),
  modeIndex |-> Num(0), cvtKind |-> Str("manual"),
  h |-> Num(1920), v |-> Num(1080), hz |-> Num(60),
  hFront |-> Num(88), hSync |-> Num(44), hBack |-> Num(148),
  vFront |-> Num(4), vSync |-> Num(5), vBack |-> Num(36),
  bpp |-> Num(48), bpc |-> Num(8), colorFormat |-> Str("rgb"),
  dscRatio |-> Num(30), pixelClock |-> Clock(148, 500000) ])

\* the same id again
EntryTwin == Obj([id |-> Str("a"), label |-> Str("twin"), peakBw |-> Numeral(10000)])

\* every numeric field absent
EntryBare == Obj([label |-> Str("bare")])

\* every numeric field present and not a number
EntryText == Obj([
  id |-> Str("n"), peakBw |-> Str("abc"), peakBwDsc |-> Str("abc"),
  calcOpen |-> Bool(TRUE), modeIndex |-> Str("first"),
  h |-> Str("wide"), v |-> Str("tall"), hz |-> Str("fast"),
  hFront |-> Str("x"), hSync |-> Str("x"), hBack |-> Str("x"),
  vFront |-> Str("x"), vSync |-> Str("x"), vBack |-> Str("x"),
  bpp |-> Str("many"), bpc |-> Str("deep"), colorFormat |-> Str("cmyk"),
  dscRatio |-> Str("high"), pixelClock |-> Str("quick") ])

\* numbers outside what the form offers: mode 99, ratio 1.0, 30 bpp at 8 bpc
EntryOdd == Obj([
  id |-> Str("o"), calcOpen |-> Bool(TRUE), modeIndex |-> Num(99),
  bpc |-> Num(8), bpp |-> Num(60), dscRatio |-> Num(10) ])

EntryId(name) == Obj([id |-> Str(name)])

Payloads == [
  invalid   |-> InvalidText,
  null      |-> JsonText(Null),
  scalar    |-> JsonText(Num(5)),
  link      |-> JsonText(Obj([transport |->
                   Obj([rate |-> Num(540), lanes |-> Num(2), coding |-> Str("128b132b")])])),
  noArray   |-> JsonText(Obj([timings |-> Str("none"), presetId |-> Str("dp12_hbr2")])),
  nullEntry |-> JsonText(Obj([timings |-> Arr(<<EntryCea, Null>>),
                   transport |-> Obj([rate |-> Num(270), lanes |-> Num(1),
                                      coding |-> Str("8b10b")])])),
  bare      |-> JsonText(Obj([timings |-> Arr(<<Num(5), EntryBare>>)])),
  noLink    |-> JsonText(Obj([timings |-> Arr(<<EntryCea>>), transport |-> Str("abc")])),
  five      |-> JsonText(Obj([timings |-> Arr(<<EntryId("a"), EntryId("b"),
                   EntryId("c"), EntryId("d"), EntryId("e")>>)])),
  empty     |-> JsonText(Obj([timings |-> Arr(<<>>)])),
  twins     |-> JsonText(Obj([timings |-> Arr(<<EntryCea, EntryTwin>>)])),
  text      |-> JsonText(Obj([timings |-> Arr(<<EntryText>>),
                   transport |-> Obj([rate |-> Str("fast"), lanes |-> Str("four"),
                                      coding |-> Num(7)])])),
  lanes3    |-> JsonText(Obj([transport |->
                   Obj([rate |-> Num(270), lanes |-> Num(3), coding |-> Str("8b10b")])])),
  preset    |-> JsonText(Obj([timings |-> Arr(<<EntryCea>>),
                   transport |-> Obj([rate |-> Num(540), lanes |-> Num(2),
                                      coding |-> Str("8b10b")]),
                   presetId |-> Str("dp20_uhbr10")])),
  odd       |-> JsonText(Obj([timings |-> Arr(<<EntryOdd>>), presetId |-> Str("nope")])) ]

----------------------------------------------------------------------------
(* Init and the handlers *)

\* the state after the first render of App, its effect still to run
AppInit ==
  /\ timings = <<emptyTiming(0, 0)>>
  /\ presetId = "dp13_hbr3"
  /\ lanes = presetOf("dp13_hbr3").lanes
  /\ rate = presetOf("dp13_hbr3").rate
  /\ coding = presetOf("dp13_hbr3").coding
  /\ effectPending = TRUE
  /\ now = 0
  /\ file = NoFile
  /\ last = Op("mount", 0, Undefined, FALSE)
  /\ steps = 0

Init ==
  /\ AppInit
  /\ call = NoCall
  /\ ret = NoRet

\* an event handler runs: the effects of the previous render have run
Handler(op, i, arg, failed) ==
  /\ ~effectPending
  /\ steps < MaxSteps
  /\ steps' = steps + 1
  /\ last' = Op(op, i, arg, failed)
  /\ UNCHANGED <<call, ret>>

\* Date.now() does not go back
NowChoices == {ms \in {now, now + 1} : ms <= MaxNow}

Slots == DOMAIN timings
SubmenuOpen(i) == Truthy(timings[i].calcOpen)

\* React.useEffect(() => { setRate; setCoding; setLanes }, [presetId])
PresetEffect ==
  /\ effectPending
  /\ rate' = presetOf(presetId).rate
  /\ coding' = presetOf(presetId).coding
  /\ lanes' = presetOf(presetId).lanes
  /\ effectPending' = FALSE
  /\ last' = Op("effect", 0, Str(presetId), FALSE)
  /\ UNCHANGED <<timings, presetId, now, file, steps, call, ret>>

SelectPreset(p) ==
  /\ Handler("setPresetId", 0, Str(p), FALSE)
  /\ presetId' = p
  /\ effectPending' = (p # presetId)
  /\ UNCHANGED <<timings, lanes, rate, coding, now, file>>

SetLanes(n) ==
  /\ Handler("setLanes", 0, Num(n), FALSE)
  /\ lanes' = n
  /\ UNCHANGED <<timings, presetId, rate, coding, effectPending, now, file>>

\* setRate(Number(e.target.value) || 0)
SetRate(x) ==
  /\ Handler("setRate", 0, Num(x), FALSE)
  /\ rate' = NumberOr(Num(x), 0).n
  /\ UNCHANGED <<timings, presetId, lanes, coding, effectPending, now, file>>

SetCoding(c) ==
  /\ Handler("setCoding", 0, Str(c), FALSE)
  /\ coding' = c
  /\ UNCHANGED <<timings, presetId, lanes, rate, effectPending, now, file>>

LinkUnchanged == UNCHANGED <<presetId, lanes, rate, coding, effectPending, now, file>>

\* a handler of card i that patches the row through updateTiming
Patch(op, i, arg, patch) ==
  /\ Handler(op, i, arg, FALSE)
  /\ timings' = updateTiming(timings, timings[i].id, patch)
  /\ LinkUnchanged

ToggleDsc(i) ==
  Patch("useDsc", i, Undefined, [useDsc |-> Bool(~Truthy(timings[i].useDsc))])

ToggleCalcOpen(i) ==
  Patch("calcOpen", i, Undefined, [calcOpen |-> Bool(~Truthy(timings[i].calcOpen))])

\* the button is disabled while timings.length <= 1
RemoveTiming(i) ==
  /\ Len(timings) > 1
  /\ Handler("removeTiming", i, timings[i].id, FALSE)
  /\ timings' = removeTiming(timings, timings[i].id)
  /\ LinkUnchanged

ChooseMode(i, modeIdx) ==
  Patch("onChooseMode", i, Num(modeIdx), onChooseModePatch(timings[i], Num(modeIdx)))

EditPeakBw(i, text) == Patch("peakBw", i, text, [peakBw |-> text])

EditPeakBwDsc(i, text) == Patch("peakBwDsc", i, text, [peakBwDsc |-> text])

\* updateTiming(t.id, {cvtKind: next}); then, the row holding a mode index,
\* onChooseMode({...t, cvtKind: next}, t.modeIndex), which may throw
SelectGenerator(i, next) ==
  LET t == timings[i]
      switched == updateTiming(timings, t.id, [cvtKind |-> Str(next)])
      reapplies == t.modeIndex.t = "number"
      throws == reapplies /\ onChooseModeThrows(t.modeIndex)
  IN  /\ SubmenuOpen(i)
      /\ Handler("cvtKind", i, Str(next), throws)
      /\ timings' =
           IF reapplies /\ ~throws
           THEN updateTiming(switched, t.id,
                  onChooseModePatch([cvtKind |-> Str(next)] @@ t, t.modeIndex))
           ELSE switched
      /\ LinkUnchanged

\* onChange={e => updateTiming(t.id, {h: Number(e.target.value) || 0})}, and
\* the same for v, hz and the six blanking fields
EditField(i, field, x) ==
  /\ SubmenuOpen(i)
  /\ Patch(field, i, Num(x), [f \in {field} |-> NumberOr(Num(x), 0)])

SelectBpc(i, option) ==
  LET nextBpc == NumberOr(Num(option), DEFAULT_BPC)
      formatKey == OrElse(timings[i].colorFormat, Str(DEFAULT_COLOR_FORMAT))
  IN  /\ SubmenuOpen(i)
      /\ Patch("bpc", i, Num(option),
               [bpc |-> nextBpc, bpp |-> Num(nextBpc.n * formatFactor(formatKey))])

SelectColorFormat(i, formatKey) ==
  LET bpc == NumberOr(timings[i].bpc, DEFAULT_BPC)
  IN  /\ SubmenuOpen(i)
      /\ Patch("colorFormat", i, Str(formatKey),
               [colorFormat |-> Str(formatKey),
                bpp |-> Num(bpc.n * formatFactor(Str(formatKey)))])

SelectDscRatio(i, ratio10) ==
  /\ SubmenuOpen(i)
  /\ Patch("dscRatio", i, Num(ratio10), [dscRatio |-> Num(ratio10)])

\* computeAndFill(t.id)
Recompute(i) ==
  /\ SubmenuOpen(i)
  /\ Handler("computeAndFill", i, Undefined, FALSE)
  /\ timings' = [k \in DOMAIN timings |->
                   IF timings[k].id # timings[i].id THEN timings[k]
                   ELSE computeAndFillRow(timings[k])]
  /\ LinkUnchanged

\* if (timings.length < 4) setTimings(ts => [...ts, emptyTiming(ts.length)])
AddTiming ==
  /\ Len(timings) < 4
  /\ \E ms \in NowChoices :
       /\ now' = ms
       /\ timings' = Append(timings, emptyTiming(ms, Len(timings)))
  /\ Handler("addTiming", 0, Undefined, FALSE)
  /\ UNCHANGED <<presetId, lanes, rate, coding, effectPending, file>>

ExportJson ==
  /\ Handler("exportJson", 0, Undefined, FALSE)
  /\ file' = JsonText(exportData)
  /\ UNCHANGED <<timings, presetId, lanes, rate, coding, effectPending, now>>

\* r.onload of onImport, reading `text`
OnImport(op, text) ==
  /\ Handler(op, 0, text, onImportThrows(text))
  /\ IF onImportThrows(text)
     THEN UNCHANGED <<timings, presetId, lanes, rate, coding, effectPending, now>>
     ELSE LET j == text.json
              transport == Prop(j, "transport")
              pid == Prop(j, "presetId")
          IN  /\ \E ms \in (IF importReadsClock(text) THEN NowChoices ELSE {now}) :
                   /\ now' = ms
                   /\ timings' = IF Prop(j, "timings").t = "array"
                                 THEN restoredTimings(Prop(j, "timings").a, ms)
                                 ELSE timings
              /\ IF Truthy(transport)
                 THEN /\ rate' = NumberOr(Prop(transport, "rate"), rate).n
                      /\ lanes' = laneOption(JsNumber(Prop(transport, "lanes")))
                      /\ coding' = importedCoding(Prop(transport, "coding"))
                 ELSE UNCHANGED <<rate, lanes, coding>>
              /\ IF pid.t = "string"
                 THEN /\ presetId' = pid.s
                      /\ effectPending' = (pid.s # presetId)
                 ELSE UNCHANGED <<presetId, effectPending>>
  /\ UNCHANGED file

Import(name) == OnImport("onImport", Payloads[name])

\* the file Export JSON wrote, read back
ImportExported ==
  /\ file # NoFile
  /\ OnImport("onImportExported", file)

PorchFields == {"hFront", "hSync", "hBack", "vFront", "vSync", "vBack"}

Next ==
  \/ PresetEffect
  \/ \E p \in PresetChoices : SelectPreset(p)
  \/ \E k \in DOMAIN LANE_OPTIONS : SetLanes(LANE_OPTIONS[k])
  \/ \E x \in RateInputs : SetRate(x)
  \/ \E c \in CodingInputs : SetCoding(c)
  \/ \E i \in Slots : ToggleDsc(i)
  \/ \E i \in Slots : ToggleCalcOpen(i)
  \/ \E i \in Slots : RemoveTiming(i)
  \/ \E i \in Slots, modeIdx \in ModeChoices : ChooseMode(i, modeIdx)
  \/ \E i \in Slots, text \in PeakInputs : EditPeakBw(i, text)
  \/ \E i \in Slots, text \in PeakInputs : EditPeakBwDsc(i, text)
  \/ \E i \in Slots, next \in CvtKinds : SelectGenerator(i, next)
  \/ \E i \in Slots, x \in ActiveInputs : EditField(i, "h", x)
  \/ \E i \in Slots, x \in LinesInputs : EditField(i, "v", x)
  \/ \E i \in Slots, x \in RefreshInputs : EditField(i, "hz", x)
  \/ \E i \in Slots, f \in PorchFields, x \in PorchInputs : EditField(i, f, x)
  \/ \E i \in Slots, option \in BpcChoices : SelectBpc(i, option)
  \/ \E i \in Slots, formatKey \in FormatChoices : SelectColorFormat(i, formatKey)
  \/ \E i \in Slots, ratio10 \in DscRatioOptions : SelectDscRatio(i, ratio10)
  \/ \E i \in Slots : Recompute(i)
  \/ AddTiming
  \/ ExportJson
  \/ \E name \in DOMAIN Payloads : Import(name)
  \/ ImportExported

Spec == Init /\ [][Next]_vars

----------------------------------------------------------------------------
(* The pure functions, applied to inputs drawn at the start *)

PureWidths == {320, 640, 800, 1280}
PureHeights == {240, 480, 600}
PureRates == {24, 60, 75}

\* active resolution and refresh rate: the predefined modes and a grid
\* rasters of the other aspect ratios: 16:10, 5:4, 15:9, 64:27, 12:5, none
\* (1000x1000, and 1366x768 whose width is not a multiple of 8), and 80x48,
\* which 16:10 and 15:9 both match
AspectInputs ==
  {[h |-> 1280, v |-> 800, hz |-> 60], [h |-> 1280, v |-> 1024, hz |-> 60],
   [h |-> 1280, v |-> 768, hz |-> 60], [h |-> 2560, v |-> 1080, hz |-> 60],
   [h |-> 1920, v |-> 800, hz |-> 60], [h |-> 1000, v |-> 1000, hz |-> 60],
   [h |-> 1366, v |-> 768, hz |-> 60], [h |-> 80, v |-> 48, hz |-> 60]}

GeneratorInputs ==
  {[h |-> ModeAt(i).h, v |-> ModeAt(i).v, hz |-> ModeAt(i).hz] : i \in ModeIndices}
    \cup [h : PureWidths, v : PureHeights, hz : PureRates]
    \cup AspectInputs

\* margin percentages, as fractions
MarginInputs ==
  {[num |-> n, den |-> 10] : n \in {-500, 0, 50, 99, 100, 101, 200, 1000}}

PureCalls ==
  {[fn |-> "calculateCvtTiming", in |-> x] : x \in GeneratorInputs}
    \cup {[fn |-> "utilColor", in |-> [fits |-> f, marginPct |-> m]] :
            f \in BOOLEAN, m \in MarginInputs}

NoTimings == [k \in CvtProfiles |-> Undefined]

PureInit ==
  /\ AppInit
  /\ call \in PureCalls
  /\ ret = [of |-> "none", done |-> {}, out |-> NoTimings]

\* calculateCvtTiming({hActive, vActive, refreshHz, reducedBlanking})
CallCalculateCvtTiming(reducedBlanking) ==
  /\ call.fn = "calculateCvtTiming"
  /\ reducedBlanking \notin ret.done
  /\ ret' = [of |-> call.fn, done |-> ret.done \cup {reducedBlanking},
             out |-> [ret.out EXCEPT ![reducedBlanking] =
                        calculateCvtTiming(call.in.h, call.in.v, call.in.hz,
                                           reducedBlanking)]]
  /\ UNCHANGED <<appVars, call>>

\* utilColor(fits, marginPct)
CallUtilColor ==
  /\ call.fn = "utilColor"
  /\ ret.of = "none"
  /\ ret' = [of |-> call.fn, done |-> {},
             out |-> utilColor(call.in.fits, call.in.marginPct)]
  /\ UNCHANGED <<appVars, call>>

PureNext ==
  \/ \E reducedBlanking \in CvtProfiles : CallCalculateCvtTiming(reducedBlanking)
  \/ CallUtilColor

PureSpec == PureInit /\ [][PureNext]_vars

----------------------------------------------------------------------------
(* C1: the fit decision *)

\* the rate a slot contributes, in 10^-4 Gbps: peakBwDsc when useDsc is on,
\* otherwise peakBw; a string that is not a numeral counts as 0
C1Selected(t) ==
  LET text == IF t.useDsc = Bool(TRUE) THEN t.peakBwDsc ELSE t.peakBw
  IN  IF IsNumeral(text) THEN text.dec ELSE 0

RECURSIVE C1Required(_)
C1Required(k) == IF k = 0 THEN 0 ELSE C1Required(k - 1) + C1Selected(timings[k])

\* per-lane rate x lanes x coding efficiency, as a fraction of 10^-2 Gbps
C1Capacity ==
  [num |-> rate * lanes * codingEfficiency(coding).num,
   den |-> codingEfficiency(coding).den]

\* C1: in every reachable state fits is true exactly when the sum of the
\* slots' selected rates is at most the payload capacity (rate x lanes x
\* coding efficiency) plus 1e-9; a total equal to the capacity fits.  The
\* rates are multiples of 10^-4 Gbps and the capacity one of 10^-2/33 Gbps,
\* so 1e-9 is below the distance of two values that differ.
C1_FitDecision ==
  fits <=> (C1Required(Len(timings)) * C1Capacity.den <= 100 * C1Capacity.num)

\* a total that is exactly the capacity, typed into a rate field, fits
C1_Witness ==
  /\ last.op \in {"peakBw", "peakBwDsc"}
  /\ C1Required(Len(timings)) > 0
  /\ C1Required(Len(timings)) * C1Capacity.den = 100 * C1Capacity.num
  /\ fits

----------------------------------------------------------------------------
(* C2: the number of slots *)

\* C2: after any sequence of additions, removals, mode selections,
\* recomputes and imports the number of slots is between 1 and 4, and an
\* import of more than 4 timings is not rejected and keeps the first 4
C2_SlotCount ==
  /\ Len(timings) \in 1 .. 4
  /\ (last.op = "onImport" /\ last.arg = Payloads.five) =>
       /\ ~last.failed
       /\ Len(timings) = 4
       /\ \A k \in 1 .. 4 :
            timings[k].id = Prop(Prop(Payloads.five.json, "timings").a[k], "id")

\* a removal has left no slot at all
C2_NoSlot == last.op = "removeTiming" /\ Len(timings) = 0

----------------------------------------------------------------------------
(* C3: the lane count *)

\* the file parses and none of its timings entries is null
C3Readable(text) ==
  /\ text.valid
  /\ ~Nullish(text.json)
  /\ LET ts == Prop(text.json, "timings")
     IN  ts.t = "array" => \A k \in DOMAIN ts.a : ~Nullish(ts.a[k])

\* transport.lanes is missing, not a number, or a number outside {1, 2, 4}
C3BadLanes(transport) ==
  LET l == Prop(transport, "lanes")
  IN  l.t # "number" \/ l.n \notin {1, 2, 4}

----------------------------------------------------------------------------
(* C4: export, then import of the exported file *)

C4Fields == {"cvtKind", "h", "v", "hz", "hFront", "hSync", "hBack",
             "vFront", "vSync", "vBack", "useDsc"}

\* the selected rate of an exported row
C4SelectedOf(entry) ==
  LET text == IF Prop(entry, "useDsc") = Bool(TRUE) THEN Prop(entry, "peakBwDsc")
              ELSE Prop(entry, "peakBw")
  IN  IF IsNumeral(text) THEN text.dec ELSE 0

\* C4: importing the object exported from a state S yields a state whose
\* slots have the profile, h, v, hz, the six blanking fields, the useDsc
\* toggle and the selected rate they had in S, and whose link configuration
\* (rate, lanes, coding) is that of S
C4_RoundTrip ==
  (last.op = "onImportExported") =>
    LET exported == Prop(file.json, "timings").a
        transport == Prop(file.json, "transport")
    IN  /\ ~last.failed
        /\ Len(timings) = Len(exported)
        /\ \A k \in DOMAIN timings :
             /\ \A f \in C4Fields : timings[k][f] = Prop(exported[k], f)
             /\ C1Selected(timings[k]) = C4SelectedOf(exported[k])
        /\ rate = Prop(transport, "rate").n
        /\ lanes = Prop(transport, "lanes").n
        /\ coding = Prop(transport, "coding").s

\* the exported coding 128b132b came back as another value
C4_CodingLost ==
  /\ last.op = "onImportExported"
  /\ Prop(Prop(file.json, "transport"), "coding") = Str("128b132b")
  /\ coding # "128b132b"

----------------------------------------------------------------------------
(* C5: files that are not of the expected shape *)

\* not JSON, not an object, without a timings array, with a timings entry
\* that is not an object, or with a transport that is not an object
C5BadShape(text) ==
  \/ ~text.valid
  \/ text.json.t # "object"
  \/ Prop(text.json, "timings").t # "array"
  \/ \E k \in DOMAIN Prop(text.json, "timings").a :
       Prop(text.json, "timings").a[k].t # "object"
  \/ /\ Prop(text.json, "transport") # Undefined
     /\ Prop(text.json, "transport").t # "object"

\* C5: an import of a file that is not valid JSON or not of the expected
\* shape is reported as an error and leaves timings, rate, lanes, coding and
\* presetId as they were
C5_BadShapeRejected ==
  [][ (last'.op = "onImport" /\ C5BadShape(last'.arg)) =>
        /\ last'.failed
        /\ UNCHANGED <<timings, rate, lanes, coding, presetId>> ]_vars

\* a file without a timings array was taken without an error and its
\* transport applied
C5_Applied ==
  /\ last.op = "onImport"
  /\ last.arg = Payloads.link
  /\ ~last.failed
  /\ rate = 540
  /\ lanes = 2

----------------------------------------------------------------------------
(* C6: the defaults of an imported entry *)

C6NonNumeric(x) == x.t # "number"

\* C6: importing an entry whose numeric fields are absent or not numbers
\* does not fail and yields a slot with bpc 8, colorFormat rgb (when the
\* entry names no format), dscRatio 3, and h, v, hz unset
C6_ImportDefaults ==
  ( /\ last.op = "onImport"
    /\ C3Readable(last.arg)
    /\ Prop(last.arg.json, "timings").t = "array"
    /\ Len(Prop(last.arg.json, "timings").a) > 0 )
  => /\ ~last.failed
     /\ \A k \in DOMAIN timings :
          LET e == Prop(last.arg.json, "timings").a[k]
              t == timings[k]
          IN  /\ C6NonNumeric(Prop(e, "bpc")) => t.bpc = Num(DEFAULT_BPC)
              /\ Prop(e, "colorFormat") = Undefined =>
                   t.colorFormat = Str(DEFAULT_COLOR_FORMAT)
              /\ C6NonNumeric(Prop(e, "dscRatio")) => t.dscRatio = Num(30)
              /\ C6NonNumeric(Prop(e, "h")) => t.h = Undefined
              /\ C6NonNumeric(Prop(e, "v")) => t.v = Undefined
              /\ C6NonNumeric(Prop(e, "hz")) => t.hz = Undefined

\* an entry without any numeric field became a slot without a dscRatio
C6_NoRatio ==
  /\ last.op = "onImport"
  /\ last.arg = Payloads.bare
  /\ Len(timings) = 2
  /\ timings[2].bpc = Num(DEFAULT_BPC)
  /\ timings[2].h = Undefined
  /\ timings[2].dscRatio = Undefined

----------------------------------------------------------------------------
(* C7: the status classification *)

\* C7: for every fits and margin percentage the status is over-capacity
\* (red) when fits is false, whatever the margin; low-margin (amber) when
\* fits is true and the margin is below 10; healthy (emerald) when fits is
\* true and the margin is at least 10
C7_Classification ==
  (ret.of = "utilColor") =>
    LET f == call.in.fits
        m == call.in.marginPct
    IN  /\ ret.out \in {"bg-red-500", "bg-amber-400", "bg-emerald-500"}
        /\ (ret.out = "bg-red-500") <=> ~f
        /\ (ret.out = "bg-amber-400") <=> (f /\ m.num < 10 * m.den)
        /\ (ret.out = "bg-emerald-500") <=> (f /\ m.num >= 10 * m.den)

\* fits with a margin of exactly 10 percent: healthy
C7_Witness ==
  /\ ret.of = "utilColor"
  /\ call.in.fits
  /\ call.in.marginPct.num = 10 * call.in.marginPct.den
  /\ ret.out = "bg-emerald-500"

----------------------------------------------------------------------------
(* C8: the pixel clocks of the three profiles *)

C8AtLeast(a, b) == a.mhz > b.mhz \/ (a.mhz = b.mhz /\ a.hz >= b.hz)

\* the clock of the totals calculateCvtTiming returned for a profile
C8FromTotals(kind) ==
  LET r == ret.out[kind]
  IN  pixelClockMHzFromTotals(call.in.h, call.in.v, call.in.hz, r.hFront, r.hSync,
                              r.hBack, r.vFront, r.vSync, r.vBack)

C8Monotone ==
  /\ C8AtLeast(ret.out["cvt"].pixelClockMHz, ret.out["cvt_rb"].pixelClockMHz)
  /\ C8AtLeast(ret.out["cvt_rb"].pixelClockMHz, ret.out["cvt_rb2"].pixelClockMHz)
  /\ C8AtLeast(C8FromTotals("cvt"), C8FromTotals("cvt_rb"))
  /\ C8AtLeast(C8FromTotals("cvt_rb"), C8FromTotals("cvt_rb2"))

C8Predefined ==
  \E i \in ModeIndices :
    call.in = [h |-> ModeAt(i).h, v |-> ModeAt(i).v, hz |-> ModeAt(i).hz]

\* C8 as stated: for every predefined mode and every h, v, hz > 0 of the
\* grid, clock(cvt) >= clock(cvt_rb) >= clock(cvt_rb2), for the clocks
\* calculateCvtTiming returns and for the clocks of its totals
C8_EveryInput == (ret.done = CvtProfiles) => C8Monotone

\* C8, for the predefined modes: clock(cvt) >= clock(cvt_rb) >=
\* clock(cvt_rb2), for the clocks calculateCvtTiming returns and for the
\* clocks of its totals
C8_PredefinedModes == (ret.done = CvtProfiles /\ C8Predefined) => C8Monotone

\* 1920x1080 @ 60 under the three profiles
C8_Witness ==
  /\ ret.done = CvtProfiles
  /\ call.in = [h |-> 1920, v |-> 1080, hz |-> 60]
  /\ ~C8AtLeast(ret.out["cvt_rb"].pixelClockMHz, ret.out["cvt"].pixelClockMHz)
  /\ ~C8AtLeast(ret.out["cvt_rb2"].pixelClockMHz, ret.out["cvt_rb"].pixelClockMHz)

----------------------------------------------------------------------------
(* C9: the stored compressed rate *)

\* C9: after a mode selection or a recompute the slot's stored peakBwDsc
\* is strictly less than its stored peakBw
C9_StoredRates ==
  (last.op \in {"onChooseMode", "computeAndFill"} /\ ~last.failed) =>
    LET t == timings[last.i]
    IN  /\ IsNumeral(t.peakBw)
        /\ IsNumeral(t.peakBwDsc)
        /\ t.peakBwDsc.dec < t.peakBw.dec

\* a mode was selected on a slot imported with dscRatio 1.0: the stored
\* compressed rate is the uncompressed one
C9_Equal ==
  /\ last.op = "onChooseMode"
  /\ timings[last.i].dscRatio = Num(10)
  /\ timings[last.i].peakBw.dec > 0
  /\ timings[last.i].peakBwDsc = timings[last.i].peakBw

----------------------------------------------------------------------------
(* C10: the derived fields of a slot that is not manual *)

\* the blanking fields and the pixel clock of t are what calculateCvtTiming
\* returns for its h, v, hz and profile
C10Derived(t) ==
  /\ \A f \in {"h", "v", "hz"} : t[f].t = "number"
  /\ LET r == calculateCvtTiming(t.h.n, t.v.n, t.hz.n, KindName(t.cvtKind))
     IN  /\ t.hFront = Num(r.hFront)
         /\ t.hSync = Num(r.hSync)
         /\ t.hBack = Num(r.hBack)
         /\ t.vFront = Num(r.vFront)
         /\ t.vSync = Num(r.vSync)
         /\ t.vBack = Num(r.vBack)
         /\ t.pixelClock = r.pixelClockMHz

\* C10: in every reachable state a slot whose profile is not manual has
\* blanking fields and a pixel clock equal to the generator's output for its
\* current h, v, hz and profile
C10_GeneratorOutput ==
  \A k \in DOMAIN timings :
    timings[k].cvtKind # Str("manual") => C10Derived(timings[k])

\* the H field of a cvt_rb2 slot of the form was typed over: the slot keeps
\* its profile and the blanking of the old width
C10_HandEdited ==
  /\ last.op = "h"
  /\ timings[last.i].id = TimeId(0, 0)
  /\ timings[last.i].cvtKind = Str("cvt_rb2")
  /\ timings[last.i].h = Num(320)
  /\ timings[last.i].hFront = Num(DEFAULT_PRESET_TIMING.hFront)
  /\ ~C10Derived(timings[last.i])

----------------------------------------------------------------------------
(* C11: the stored rates after an edit *)

C11Edits == {"h", "v", "hz", "bpc", "colorFormat", "dscRatio"} \cup PorchFields

\* the stored rates of t are those of its pixel clock, bpp and dscRatio:
\* peakBw = pixelClock * 1e6 * bpp / 1e9 and peakBwDsc = that / dscRatio,
\* both to 4 decimals
C11Fresh(t) ==
  /\ t.pixelClock.t = "number"
  /\ t.bpp.t = "number"
  /\ t.dscRatio.t = "number" /\ t.dscRatio.n > 0
  /\ LET raw == streamGbpsFromClock(t.pixelClock, t.bpp.n)
     IN  /\ t.peakBw = toFixed4(raw)
         /\ t.peakBwDsc = toFixed4(DivideByRatio(raw, t.dscRatio.n))

\* C11: immediately after an edit of a slot's h, v, hz, blanking, bpc,
\* colorFormat or dscRatio the slot's stored peakBw and peakBwDsc are the
\* rates of its current pixel clock, bpp and dscRatio, without a Recompute
C11_EagerRecompute ==
  (last.op \in C11Edits) => C11Fresh(timings[last.i])

\* a slot holding the rates of 24 bpp was set to 10-bit: bpp is 30 and the
\* stored rates are still those of 24 bpp
C11_Stale ==
  /\ last.op = "bpc"
  /\ timings[last.i].bpp = Num(60)
  /\ IsNumeral(timings[last.i].peakBw)
  /\ timings[last.i].peakBw = toFixed4(streamGbpsFromClock(timings[last.i].pixelClock, 48))
  /\ ~C11Fresh(timings[last.i])

----------------------------------------------------------------------------
(* C12: the selection of a generated profile *)

\* C12: selecting a profile p other than manual on a slot leaves the slot
\* with cvtKind = p, the h, v, hz it held before the selection, the blanking
\* and pixel clock the generator returns for them under p, and the rates of
\* that clock
C12_ProfileSwitch ==
  [][ (last'.op = "cvtKind" /\ last'.arg # Str("manual")) =>
        LET before == timings[last'.i]
            after == timings'[last'.i]
        IN  /\ ~last'.failed
            /\ after.cvtKind = last'.arg
            /\ after.h = before.h
            /\ after.v = before.v
            /\ after.hz = before.hz
            /\ C10Derived(after)
            /\ C11Fresh(after) ]_vars

\* CVT-RB was selected on the initial slot (3840x2160 @ 144, mode index 0):
\* the slot now holds 1920x1080 @ 60, the mode of index 0
C12_ResetToMode ==
  /\ steps = 2
  /\ last.op = "cvtKind"
  /\ last.arg = Str("cvt_rb")
  /\ timings[last.i].id = TimeId(0, 0)
  /\ timings[last.i].h = Num(1920)
  /\ timings[last.i].v = Num(1080)
  /\ timings[last.i].hz = Num(60)

----------------------------------------------------------------------------
(* C13: the selection of the manual profile *)

\* C13: selecting manual on a slot leaves its hFront, hSync, hBack, vFront,
\* vSync and vBack exactly as they were, and changes no other slot
C13_ManualFreezes ==
  [][ (last'.op = "cvtKind" /\ last'.arg = Str("manual")) =>
        /\ \A f \in PorchFields : timings'[last'.i][f] = timings[last'.i][f]
        /\ \A k \in DOMAIN timings : k # last'.i => timings'[k] = timings[k] ]_vars

\* manual was selected on the first of two slots imported with one id: the
\* second slot is manual as well
C13_OtherSlotChanged ==
  /\ last.op = "cvtKind"
  /\ last.arg = Str("manual")
  /\ last.i = 1
  /\ Len(timings) = 2
  /\ timings[2].label = Str("twin")
  /\ timings[2].id = timings[1].id
  /\ timings[2].cvtKind = Str("manual")

----------------------------------------------------------------------------
(* C14: no profile is terminal *)

\* C14: in every reachable state, files with any numeric modeIndex imported
\* included, a selection of manual, cvt, cvt_rb or cvt_rb2 on a slot
\* completes without failure and leaves the slot in the selected profile
C14_SelectionCompletes ==
  (last.op = "cvtKind") =>
    /\ ~last.failed
    /\ timings[last.i].cvtKind = last.arg

\* a profile was selected on a slot imported with modeIndex 99: the handler
\* threw
C14_Threw ==
  /\ last.op = "cvtKind"
  /\ last.failed
  /\ timings[last.i].modeIndex = Num(99)

----------------------------------------------------------------------------
(* C15: the recompute of a manual slot *)

\* C15: a recompute of a manual slot leaves h, v, hz and the six blanking
\* fields as they were entered, 0 included, and sets the pixel clock to
\* (h + hFront + hSync + hBack) * (v + vFront + vSync + vBack) * hz / 1e6
C15_ManualRecompute ==
  [][ (last'.op = "computeAndFill" /\ timings[last'.i].cvtKind = Str("manual")) =>
        LET before == timings[last'.i]
            after == timings'[last'.i]
        IN  /\ \A f \in {"h", "v", "hz"} \cup PorchFields : after[f] = before[f]
            /\ \A f \in {"h", "v", "hz"} \cup PorchFields : after[f].t = "number"
            /\ after.pixelClock =
                 pixelClockMHzFromTotals(after.h.n, after.v.n, after.hz.n,
                                         after.hFront.n, after.hSync.n, after.hBack.n,
                                         after.vFront.n, after.vSync.n, after.vBack.n) ]_vars

\* the manual slot of the imported file (front porch 88) was given a front
\* porch of 0 and recomputed: the front porch is 8
C15_ZeroReplaced ==
  /\ last.op = "computeAndFill"
  /\ timings[last.i].id = Str("a")
  /\ timings[last.i].cvtKind = Str("manual")
  /\ timings[last.i].hFront = Num(8)
  /\ timings[last.i].hSync = Num(44)

----------------------------------------------------------------------------
(* C16: the vertical sync width *)

\* the candidates in their order: ratio num/den and the width it maps to
C16Candidates == <<
  <<4, 3, 4>>, <<16, 9, 5>>, <<16, 10, 6>>, <<5, 4, 7>>, <<15, 9, 7>>,
  <<43, 18, 10>>, <<64, 27, 10>>, <<12, 5, 10>> >>

\* round(v * num/den / 8) * 8, halves upward
C16Width(v, num, den) == 8 * ((2 * v * num + 8 * den) \div (16 * den))

C16Expected(h, v) ==
  LET hits == {i \in DOMAIN C16Candidates :
                 C16Width(v, C16Candidates[i][1], C16Candidates[i][2]) = 8 * (h \div 8)}
  IN  IF hits = {} THEN 10
      ELSE C16Candidates[CHOOSE i \in hits : \A j \in hits : i <= j][3]

\* C16: the vertical sync width is 8 for cvt_rb2; for cvt and cvt_rb it is
\* the width of the first candidate, in the order 4:3, 16:9, 16:10, 5:4,
\* 15:9, 43:18, 64:27, 12:5, with round(v * ratio / 8) * 8 = the width
\* rounded down to a multiple of 8 (4, 5, 6, 7, 7, and 10 for the others),
\* and 10 when no candidate matches
C16_VSyncWidth ==
  \A kind \in ret.done :
    ret.out[kind].vSync =
      IF kind = "cvt_rb2" THEN 8 ELSE C16Expected(call.in.h, call.in.v)

\* 80x48, which 16:10 and 15:9 both match: 6, the width of 16:10
C16_Witness ==
  /\ ret.done = CvtProfiles
  /\ call.in = [h |-> 80, v |-> 48, hz |-> 60]
  /\ C16Width(48, 16, 10) = 80
  /\ C16Width(48, 15, 9) = 80
  /\ ret.out["cvt"].vSync = 6
  /\ ret.out["cvt_rb"].vSync = 6
  /\ ret.out["cvt_rb2"].vSync = 8

----------------------------------------------------------------------------
(* C17: the returned timing is well formed *)

C17MultipleOf8(n) == n >= 0 /\ n % 8 = 0

\* C17: for cvt, cvt_rb and cvt_rb2 and every h, v, hz > 0 of the inputs
\* the returned hFront, hSync, hBack and hTotal are non-negative multiples
\* of 8, vFront, vSync and vBack are non-negative, hFront + hSync + hBack =
\* hBlank = hTotal - (h rounded down to a multiple of 8), and vFront + vSync
\* + vBack = vBlank = vTotal - v
C17_WellFormed ==
  \A kind \in ret.done :
    LET r == ret.out[kind]
    IN  /\ C17MultipleOf8(r.hFront)
        /\ C17MultipleOf8(r.hSync)
        /\ C17MultipleOf8(r.hBack)
        /\ C17MultipleOf8(r.hTotal)
        /\ r.vFront >= 0 /\ r.vSync >= 0 /\ r.vBack >= 0
        /\ r.hFront + r.hSync + r.hBack = r.hBlank
        /\ r.hBlank = r.hTotal - 8 * (call.in.h \div 8)
        /\ r.vFront + r.vSync + r.vBack = r.vBlank
        /\ r.vBlank = r.vTotal - call.in.v

\* 1366x768, whose width is not a multiple of 8, under the three profiles:
\* the totals are those of 1360 pixels
C17_Witness ==
  /\ ret.done = CvtProfiles
  /\ call.in = [h |-> 1366, v |-> 768, hz |-> 60]
  /\ ret.out["cvt_rb"].hTotal = 1360 + 160
  /\ ret.out["cvt_rb2"].hTotal = 1360 + 80
  /\ ret.out["cvt"].hTotal > 1360 + 160

----------------------------------------------------------------------------
(* C18: the quantization of the pixel clock *)

\* the clock step of a profile, in Hz
C18Step(kind) == IF kind = "cvt_rb2" THEN 1000 ELSE 250000

\* refresh * vTotal * hTotal, as <<MHz, Hz>>
C18Raw(r) == MulDivMod(r.hTotal * r.vTotal, call.in.hz, 1000000)

\* C18: the returned pixel clock is a multiple of the profile's clock step
\* (0.25 MHz for cvt and cvt_rb, 0.001 MHz for cvt_rb2); for cvt_rb and
\* cvt_rb2 it is the largest multiple not above refresh * vTotal * hTotal /
\* 1e6, less than one step below it
C18_Quantized ==
  \A kind \in ret.done :
    LET r == ret.out[kind]
        clock == r.pixelClockMHz
    IN  /\ clock.mhz >= 0
        /\ clock.hz \in 0 .. 999999
        /\ clock.hz % C18Step(kind) = 0
        /\ kind # "cvt" =>
             /\ clock.mhz = C18Raw(r)[1]
             /\ clock.hz <= C18Raw(r)[2]
             /\ C18Raw(r)[2] < clock.hz + C18Step(kind)

\* 1920x1080 @ 60 under cvt_rb: 2080 x 1111 x 60 = 138.6528 MHz, returned
\* as 138.5 MHz
C18_Witness ==
  /\ "cvt_rb" \in ret.done
  /\ call.in = [h |-> 1920, v |-> 1080, hz |-> 60]
  /\ C18Raw(ret.out["cvt_rb"]) = <<138, 652800>>
  /\ ret.out["cvt_rb"].pixelClockMHz = Clock(138, 500000)

----------------------------------------------------------------------------
(* C19: bits per pixel *)

\* twice the factor of a colour format: rgb 3, yuv444 3, yuv422 2, yuv420 1.5
C19Factor2(colorFormat) ==
  CASE colorFormat = Str("rgb")    -> 6
    [] colorFormat = Str("yuv444") -> 6
    [] colorFormat = Str("yuv422") -> 4
    [] colorFormat = Str("yuv420") -> 3
    [] OTHER                       -> 0

\* C19: in every reachable state each slot's bpp is its bpc times the
\* factor of its colour format
C19_BitsPerPixel ==
  \A k \in DOMAIN timings :
    /\ timings[k].bpc.t = "number"
    /\ timings[k].bpp = Num((timings[k].bpc.n * C19Factor2(timings[k].colorFormat)))

\* the slot imported with bpc 8 and bpp 30 holds both
C19_Mismatch ==
  /\ last.op = "onImport"
  /\ timings[1].id = Str("o")
  /\ timings[1].bpc = Num(8)
  /\ timings[1].colorFormat = Str("rgb")
  /\ timings[1].bpp = Num(60)

----------------------------------------------------------------------------
(* C20: the coding scheme *)

\* C20: in every reachable state, after an import too, the coding scheme
\* is 8b10b or 128b132b, and so is the transport.coding an export writes
C20_CodingEnumerated ==
  /\ coding \in {"8b10b", "128b132b"}
  /\ file # NoFile =>
       Prop(Prop(file.json, "transport"), "coding") \in {Str("8b10b"), Str("128b132b")}

\* an import of a file with coding 128b132b, then an export: the file says
\* 128b/132b
C20_Exported ==
  /\ last.op = "exportJson"
  /\ coding = "128b/132b"
  /\ Prop(Prop(file.json, "transport"), "coding") = Str("128b/132b")

----------------------------------------------------------------------------
(* C21: the ids of the slots *)

\* C21: in every reachable state, after an import of a file that carries
\* its own ids too, the ids of the slots are pairwise distinct
C21_DistinctIds ==
  \A i, k \in DOMAIN timings : i # k => timings[i].id # timings[k].id

\* the file with two entries of id "a" was imported: both slots hold "a"
C21_SharedId ==
  /\ last.op = "onImport"
  /\ last.arg = Payloads.twins
  /\ ~last.failed
  /\ Len(timings) = 2
  /\ timings[1].id = Str("a")
  /\ timings[2].id = Str("a")

----------------------------------------------------------------------------
(* C22: an imported transport and the preset effect *)

\* the file carries a transport with a positive rate, lanes of 1, 2 or 4
\* and a coding, and a presetId
C22Payload(text) ==
  /\ text.valid
  /\ ~onImportThrows(text)
  /\ LET transport == Prop(text.json, "transport")
     IN  /\ transport.t = "object"
         /\ Prop(transport, "rate").t = "number"
         /\ IsPositive(Prop(transport, "rate"))
         /\ Prop(transport, "lanes") \in {Num(1), Num(2), Num(4)}
         /\ Prop(transport, "coding").t = "string"
  /\ Prop(text.json, "presetId").t = "string"

\* the last handler was an import of such a file
C22Imported ==
  /\ last.op \in {"onImport", "onImportExported"}
  /\ ~last.failed
  /\ C22Payload(last.arg)

\* a link of rate r, lanes l and coding c is the transport of the file
C22Kept(text, r, l, c) ==
  LET transport == Prop(text.json, "transport")
  IN  /\ r = Prop(transport, "rate").n
      /\ l = Prop(transport, "lanes").n
      /\ codingEfficiency(c) = codingEfficiency(Prop(transport, "coding").s)

\* C22: after an import of a file with a transport and a presetId, once
\* the preset effect the import triggered has run (or at once, when it
\* triggered none), rate, lanes and coding efficiency are the file's
C22_TransportSurvives ==
  [][ /\ (C22Imported' /\ ~effectPending') => C22Kept(last'.arg, rate', lanes', coding')
      /\ (C22Imported /\ last'.op = "effect") => C22Kept(last.arg, rate', lanes', coding')
    ]_vars

\* the file with 5.4 Gbps x 2, 8b10b and presetId dp20_uhbr10 was imported
\* as the first action and the effect has run: the link is the preset's
\* 10 Gbps x 4, 128b132b
C22_Overwritten ==
  /\ steps = 1
  /\ last.op = "effect"
  /\ presetId = "dp20_uhbr10"
  /\ timings[1].id = Str("a")
  /\ rate = 1000
  /\ lanes = 4
  /\ coding = "128b132b"

====
